---- MODULE Spec2Model ----
(***************************************************************************)
(* EarlyAllocator<SIZE> of arceos/modules/bump_allocator: a double-ended   *)
(* bump allocator.  Bytes are handed out forward from b_pos, pages         *)
(* backward from p_pos.  All fields are usize; the model keeps the width   *)
(* (scaled down to WordBits bits) because the arithmetic of alloc and      *)
(* alloc_pages is unchecked in the source: with overflow checks compiled   *)
(* in (debug profile) an overflowing operation panics, without them        *)
(* (release profile) it wraps modulo 2^WordBits.                           *)
(***************************************************************************)
EXTENDS Integers, Naturals, Sequences, FiniteSets, TLC

\* ------------------------------------------------------------------------
\* Widths and input universes
\* ------------------------------------------------------------------------

\* width of usize in bits (64 on the real targets, scaled down)
WordBits == 4

\* the generic parameter SIZE, i.e. PageAllocator::PAGE_SIZE
PAGE_SIZE == 4

\* cap on the number of live byte allocations explored
MaxCount == 2

Modulus == 2 ^ WordBits

UsizeMax == Modulus - 1

\* isize::MAX, the largest size a core::alloc::Layout can describe
IsizeMax == (Modulus \div 2) - 1

Usize == 0 .. UsizeMax

\* arguments of init: region bases and sizes; the caller keeps
\* start + size representable (start <= start + size)
InitStarts == {0, PAGE_SIZE, Modulus - 2 * PAGE_SIZE}

InitSizes == {0, 2 * PAGE_SIZE - 1, 2 * PAGE_SIZE}

InitArgs == {p \in InitStarts \X InitSizes : p[1] + p[2] <= UsizeMax}

\* powers of two usable as alignments
Aligns == {1, 2, PAGE_SIZE, 2 * PAGE_SIZE}

\* Layout::from_size_align: align is a power of two and size, rounded up
\* to align, does not exceed isize::MAX
Layouts == {l \in (0 .. IsizeMax) \X Aligns : l[1] <= IsizeMax + 1 - l[2]}

\* page counts requested from alloc_pages; Modulus \div PAGE_SIZE is the
\* smallest count whose byte size does not fit in usize
PageCounts == {0, 1, 2, 3, Modulus \div PAGE_SIZE}

PageAligns == {1, PAGE_SIZE, 2 * PAGE_SIZE}

\* arguments of add_memory
AddMemoryArgs == {<<0, PAGE_SIZE>>, <<2 * PAGE_SIZE, 2 * PAGE_SIZE>>}

\* addresses passed to dealloc / dealloc_pages (ignored by the code)
DeallocAddrs == {PAGE_SIZE, 2 * PAGE_SIZE}

\* layouts passed to dealloc (ignored by the code)
DeallocLayouts == {<<1, 1>>, <<PAGE_SIZE, PAGE_SIZE>>}

\* page counts passed to dealloc_pages (ignored by the code)
DeallocPageCounts == {0, 1}

\* width of u64 in bits (scaled down), for AxeosHasher::state
HashBits == 6

HashModulus == 2 ^ HashBits

\* the constant 0x9e3779b9 added to the seed, truncated to HashBits bits
SeedOffset == 57

\* the multiplier of AxeosHasher::write
HashMultiplier == 31

\* values axhal::misc::random() can return, as u64
RandomValues == {0, 1, 2, 10}

\* u8 values fed to a hasher
Bytes == {0, 1, 2}

\* number of bytes fed to one hasher at most
MaxFed == 2

\* byte slices passed to one write call
ByteSlices == {<<>>} \cup {<<b>> : b \in Bytes} \cup (Bytes \X Bytes)

\* the hashers a map has built
HasherIds == {1, 2}

VARIABLES start, end, b_pos, p_pos, count, bytes_start,
          overflow_checks, last, ep, init_args, grants, track, hashers

fields == <<start, end, b_pos, p_pos, count, bytes_start>>

vars == <<start, end, b_pos, p_pos, count, bytes_start,
          overflow_checks, last, ep, init_args, grants, track, hashers>>

\* ------------------------------------------------------------------------
\* usize arithmetic
\* ------------------------------------------------------------------------

\* bitwise AND of two naturals
RECURSIVE BitAnd(_, _)
BitAnd(x, y) ==
    IF x = 0 \/ y = 0 THEN 0
    ELSE (IF x % 2 = 1 /\ y % 2 = 1 THEN 1 ELSE 0)
         + 2 * BitAnd(x \div 2, y \div 2)

\* the ! operator on usize
BitNot(x) == UsizeMax - x

WrapAdd(x, y) == (x + y) % Modulus

WrapSub(x, y) == (x - y) % Modulus

WrapMul(x, y) == (x * y) % Modulus

AddOverflows(x, y) == x + y > UsizeMax

SubOverflows(x, y) == x < y

MulOverflows(x, y) == x * y > UsizeMax

\* ------------------------------------------------------------------------
\* The allocator as a value
\* ------------------------------------------------------------------------

Self ==
    [start |-> start, end |-> end, b_pos |-> b_pos, p_pos |-> p_pos,
     count |-> count, bytes_start |-> bytes_start]

\* EarlyAllocator::new
new ==
    [start |-> 0, end |-> 0, b_pos |-> 0, p_pos |-> 0,
     count |-> 0, bytes_start |-> 0]

\* outcome of a call: the allocator afterwards, the result, the address
\* returned on Ok, and whether some usize operation left the usize range
Outcome(s, res, ret, ovf) == [st |-> s, res |-> res, ret |-> ret, ovf |-> ovf]

\* an arithmetic overflow panics when overflow checks are compiled in;
\* the fields already assigned keep their values
Panics(ovf) == overflow_checks /\ ovf

\* init that leaves count as it was
init_keeps_count(s, a_start, a_size) ==
    LET ovf == AddOverflows(a_start, a_size)
        e   == WrapAdd(a_start, a_size)
    IN  IF Panics(ovf)
        THEN Outcome([s EXCEPT !.start = a_start], "Panic", 0, ovf)
        ELSE Outcome([start |-> a_start, end |-> e, b_pos |-> a_start,
                      p_pos |-> e, count |-> s.count,
                      bytes_start |-> a_start],
                     "Unit", 0, ovf)

\* BaseAllocator::init
init(s, a_start, a_size) ==
    LET ovf == AddOverflows(a_start, a_size)
        e   == WrapAdd(a_start, a_size)
    IN  IF Panics(ovf)
        THEN Outcome([s EXCEPT !.start = a_start], "Panic", 0, ovf)
        ELSE Outcome([start |-> a_start, end |-> e, b_pos |-> a_start,
                      p_pos |-> e, count |-> 0, bytes_start |-> a_start],
                     "Unit", 0, ovf)

\* add_memory that accepts the range when it continues the region
add_memory_extends(s, a_start, a_size) ==
    IF a_start = s.end /\ ~AddOverflows(a_start, a_size)
    THEN Outcome([s EXCEPT !.end = a_start + a_size], "Unit", 0, FALSE)
    ELSE Outcome(s, "NoMemory", 0, FALSE)

\* BaseAllocator::add_memory
add_memory(s, a_start, a_size) == Outcome(s, "NoMemory", 0, FALSE)

\* ByteAllocator::alloc
alloc(s, size, align) ==
    LET ovf1        == AddOverflows(s.b_pos, align)
        t1          == WrapAdd(s.b_pos, align)
        ovf2        == SubOverflows(t1, 1)
        t2          == WrapSub(t1, 1)
        aligned_pos == BitAnd(t2, BitNot(align - 1))
        ovf3        == AddOverflows(aligned_pos, size)
        new_pos     == WrapAdd(aligned_pos, size)
        ovf4        == AddOverflows(s.count, 1)
        ovfA        == ovf1 \/ ovf2 \/ ovf3
    IN  IF Panics(ovfA) THEN Outcome(s, "Panic", 0, ovfA)
        ELSE IF new_pos > s.p_pos THEN Outcome(s, "NoMemory", 0, ovfA)
        ELSE IF Panics(ovf4)
             THEN Outcome([s EXCEPT !.b_pos = new_pos], "Panic", 0, TRUE)
        ELSE LET s2 == [s EXCEPT !.b_pos = new_pos,
                                 !.count = WrapAdd(s.count, 1)]
             IN  IF aligned_pos = 0
                 THEN Outcome(s2, "InvalidParam", 0, ovfA \/ ovf4)
                 ELSE Outcome(s2, "Ok", aligned_pos, ovfA \/ ovf4)

\* dealloc that never resets b_pos
dealloc_no_reset(s) ==
    IF s.count > 0
    THEN Outcome([s EXCEPT !.count = s.count - 1], "Unit", 0, FALSE)
    ELSE Outcome(s, "Unit", 0, FALSE)

\* dealloc without the count > 0 guard
dealloc_unguarded(s) ==
    LET c == WrapSub(s.count, 1)
    IN  IF c = 0
        THEN Outcome([s EXCEPT !.count = c, !.b_pos = s.bytes_start],
                     "Unit", 0, FALSE)
        ELSE Outcome([s EXCEPT !.count = c], "Unit", 0, SubOverflows(s.count, 1))

\* ByteAllocator::dealloc
dealloc(s) ==
    IF s.count > 0
    THEN LET c == s.count - 1
         IN  IF c = 0
             THEN Outcome([s EXCEPT !.count = c, !.b_pos = s.bytes_start],
                          "Unit", 0, FALSE)
             ELSE Outcome([s EXCEPT !.count = c], "Unit", 0, FALSE)
    ELSE Outcome(s, "Unit", 0, FALSE)

\* alloc_pages that moves end instead of p_pos
alloc_pages_moves_end(s, num_pages, align_pow2) ==
    LET ovf1        == MulOverflows(num_pages, PAGE_SIZE)
        total_size  == WrapMul(num_pages, PAGE_SIZE)
        ovf2        == SubOverflows(s.p_pos, total_size)
        aligned_pos == BitAnd(WrapSub(s.p_pos, total_size),
                              BitNot(align_pow2 - 1))
        ovf         == ovf1 \/ ovf2
    IN  IF Panics(ovf) THEN Outcome(s, "Panic", 0, ovf)
        ELSE IF aligned_pos < s.b_pos THEN Outcome(s, "NoMemory", 0, ovf)
        ELSE Outcome([s EXCEPT !.p_pos = aligned_pos, !.end = aligned_pos],
                     "Ok", aligned_pos, ovf)

\* PageAllocator::alloc_pages
alloc_pages(s, num_pages, align_pow2) ==
    LET ovf1        == MulOverflows(num_pages, PAGE_SIZE)
        total_size  == WrapMul(num_pages, PAGE_SIZE)
        ovf2        == SubOverflows(s.p_pos, total_size)
        aligned_pos == BitAnd(WrapSub(s.p_pos, total_size),
                              BitNot(align_pow2 - 1))
        ovf         == ovf1 \/ ovf2
    IN  IF Panics(ovf) THEN Outcome(s, "Panic", 0, ovf)
        ELSE IF aligned_pos < s.b_pos THEN Outcome(s, "NoMemory", 0, ovf)
        ELSE Outcome([s EXCEPT !.p_pos = aligned_pos], "Ok", aligned_pos, ovf)

\* PageAllocator::dealloc_pages
dealloc_pages(s) == Outcome(s, "Unit", 0, FALSE)

\* ------------------------------------------------------------------------
\* Accounting queries: value, and whether the evaluation overflows
\* ------------------------------------------------------------------------

Query(val, ovf) == [val |-> val, ovf |-> ovf]

total_bytes(s) ==
    IF s.end > s.start THEN Query(s.end - s.start, FALSE) ELSE Query(0, FALSE)

used_bytes(s) ==
    LET ovfP  == SubOverflows(s.end, s.p_pos)
        pages == WrapSub(s.end, s.p_pos)
    IN  IF s.b_pos > s.bytes_start
        THEN Query(WrapAdd(s.b_pos - s.bytes_start, pages),
                   ovfP \/ AddOverflows(s.b_pos - s.bytes_start, pages))
        ELSE Query(pages, ovfP)

available_bytes(s) ==
    IF s.p_pos > s.b_pos THEN Query(s.p_pos - s.b_pos, FALSE)
    ELSE Query(0, FALSE)

total_pages(s) ==
    IF s.end > s.start THEN Query((s.end - s.start) \div PAGE_SIZE, FALSE)
    ELSE Query(0, FALSE)

used_pages(s) ==
    IF s.end > s.p_pos THEN Query((s.end - s.p_pos) \div PAGE_SIZE, FALSE)
    ELSE Query(0, FALSE)

available_pages(s) ==
    IF s.p_pos > s.b_pos THEN Query((s.p_pos - s.b_pos) \div PAGE_SIZE, FALSE)
    ELSE Query(0, FALSE)

\* ------------------------------------------------------------------------
\* Observation of calls
\* ------------------------------------------------------------------------

\* the most recent call: its name, arguments, outcome and the allocator
\* as it was when the call was made
Call(op, a1, a2, out, pre) ==
    [op |-> op, a1 |-> a1, a2 |-> a2, res |-> out.res, ret |-> out.ret,
     ovf |-> out.ovf, pre |-> pre]

NoCall == Call("new", 0, 0, Outcome(new, "Unit", 0, FALSE), new)

\* what is kept of a call: everything when calls are observed, only
\* whether it panicked when the handed-out memory is observed instead
Seen(op, a1, a2, out, pre) ==
    IF track
    THEN Call("call", 0, 0,
              Outcome(new, IF out.res = "Panic" THEN "Panic" ELSE "Unit",
                      0, FALSE),
              new)
    ELSE Call(op, a1, a2, out, pre)

\* a run of byte allocations followed by deallocations, counted from a
\* moment at which count = 0: ok = successful allocs so far (-1 once the
\* run is no longer k allocs followed by deallocs), de = deallocs so far,
\* b = b_pos before the first dealloc
FreshRun == [ok |-> 0, de |-> 0, b |-> 0]

VoidRun == [ok |-> -1, de |-> 0, b |-> 0]

RunBase(s) == IF track \/ s.count = 0 THEN FreshRun ELSE ep

RunAfterAlloc(s, out) ==
    LET r == RunBase(s)
    IN  IF track THEN FreshRun
        ELSE IF r.ok >= 0 /\ r.de = 0 /\ out.res = "Ok"
        THEN [r EXCEPT !.ok = r.ok + 1]
        ELSE VoidRun

RunAfterDealloc(s) ==
    LET r == RunBase(s)
    IN  IF track THEN FreshRun
        ELSE IF r.ok < 0 THEN r
        ELSE [ok |-> r.ok, de |-> r.de + 1,
              b |-> IF r.de = 0 THEN s.b_pos ELSE r.b]

\* memory handed out since the last init: pages = addresses inside blocks
\* returned by alloc_pages, bytes = addresses inside blocks returned by
\* alloc and not yet reclaimed by a reset of b_pos, out = successful
\* allocs not yet deallocated, disciplined = no dealloc was made with
\* out = 0, clash = some returned block met an address already handed out.
\* Once the caller is undisciplined, or a clash has happened, nothing more
\* is recorded.
NoGrants ==
    [pages |-> {}, bytes |-> {}, out |-> 0,
     disciplined |-> TRUE, clash |-> FALSE]

Undisciplined ==
    [pages |-> {}, bytes |-> {}, out |-> 0,
     disciplined |-> FALSE, clash |-> FALSE]

Clashed ==
    [pages |-> {}, bytes |-> {}, out |-> 0,
     disciplined |-> TRUE, clash |-> TRUE]

Block(addr, len) == addr .. (addr + len - 1)

Recording == track /\ grants.disciplined /\ ~grants.clash

GrantsAfterAlloc(out, size) ==
    IF ~Recording \/ out.res # "Ok" THEN grants
    ELSE LET blk == Block(out.ret, size)
         IN  IF blk \cap (grants.pages \cup grants.bytes) # {} THEN Clashed
             ELSE [grants EXCEPT !.bytes = @ \cup blk, !.out = @ + 1]

GrantsAfterDealloc(s, out) ==
    IF ~Recording THEN grants
    ELSE IF grants.out = 0 THEN Undisciplined
    ELSE [grants EXCEPT
            !.out = @ - 1,
            !.bytes = IF s.count > 0 /\ out.st.count = 0 THEN {} ELSE @]

GrantsAfterAllocPages(out, num_pages) ==
    IF ~Recording \/ out.res # "Ok" THEN grants
    ELSE LET blk == Block(out.ret, num_pages * PAGE_SIZE)
         IN  IF blk \cap (grants.pages \cup grants.bytes) # {} THEN Clashed
             ELSE [grants EXCEPT !.pages = @ \cup blk]

Panicked == last.res = "Panic"

Commit(out) ==
    /\ start' = out.st.start
    /\ end' = out.st.end
    /\ b_pos' = out.st.b_pos
    /\ p_pos' = out.st.p_pos
    /\ count' = out.st.count
    /\ bytes_start' = out.st.bytes_start

\* ------------------------------------------------------------------------
\* State machine
\* ------------------------------------------------------------------------

\* a hasher: whether it has been built, its state, and the bytes written
NoHasher == [built |-> FALSE, state |-> 0, fed |-> <<>>]

NoHashers == [i \in HasherIds |-> NoHasher]

\* a fresh allocator; the build profile is either one
Fresh ==
    /\ start = 0 /\ end = 0 /\ b_pos = 0 /\ p_pos = 0
    /\ count = 0 /\ bytes_start = 0
    /\ overflow_checks \in BOOLEAN
    /\ last = NoCall
    /\ ep = FreshRun
    /\ init_args = <<>>
    /\ grants = NoGrants

Init == Fresh /\ track = FALSE /\ hashers = NoHashers

InitGrants == Fresh /\ track = TRUE /\ hashers = NoHashers

DoInit ==
    /\ ~Panicked
    /\ \E p \in InitArgs :
        LET out == init(Self, p[1], p[2])
        IN  /\ Commit(out)
            /\ last' = Seen("init", p[1], p[2], out, Self)
            /\ ep' = FreshRun
            /\ init_args' = p
            /\ grants' = IF out.res = "Unit" THEN NoGrants ELSE grants
    /\ UNCHANGED <<overflow_checks, track, hashers>>

DoAddMemory ==
    /\ ~Panicked
    /\ \E p \in AddMemoryArgs :
        LET out == add_memory(Self, p[1], p[2])
        IN  /\ Commit(out)
            /\ last' = Seen("add_memory", p[1], p[2], out, Self)
    /\ ep' = RunBase(Self)
    /\ UNCHANGED <<overflow_checks, init_args, grants, track, hashers>>

DoAlloc ==
    /\ ~Panicked
    /\ count < MaxCount
    /\ \E l \in Layouts :
        LET out == alloc(Self, l[1], l[2])
        IN  /\ Commit(out)
            /\ last' = Seen("alloc", l[1], l[2], out, Self)
            /\ ep' = RunAfterAlloc(Self, out)
            /\ grants' = GrantsAfterAlloc(out, l[1])
    /\ UNCHANGED <<overflow_checks, init_args, track, hashers>>

DoDealloc ==
    /\ ~Panicked
    /\ \E pos \in DeallocAddrs, l \in DeallocLayouts :
        LET out == dealloc(Self)
        IN  /\ Commit(out)
            /\ last' = Seen("dealloc", 0, 0, out, Self)
            /\ grants' = GrantsAfterDealloc(Self, out)
    /\ ep' = RunAfterDealloc(Self)
    /\ UNCHANGED <<overflow_checks, init_args, track, hashers>>

DoAllocPages ==
    /\ ~Panicked
    /\ \E n \in PageCounts, al \in PageAligns :
        LET out == alloc_pages(Self, n, al)
        IN  /\ Commit(out)
            /\ last' = Seen("alloc_pages", n, al, out, Self)
            /\ grants' = GrantsAfterAllocPages(out, n)
    /\ ep' = RunBase(Self)
    /\ UNCHANGED <<overflow_checks, init_args, track, hashers>>

DoDeallocPages ==
    /\ ~Panicked
    /\ \E pos \in DeallocAddrs, n \in DeallocPageCounts :
        LET out == dealloc_pages(Self)
        IN  /\ Commit(out)
            /\ last' = Seen("dealloc_pages", pos, n, out, Self)
    /\ ep' = RunBase(Self)
    /\ UNCHANGED <<overflow_checks, init_args, grants, track, hashers>>

Next ==
    \/ DoInit
    \/ DoAddMemory
    \/ DoAlloc
    \/ DoDealloc
    \/ DoAllocPages
    \/ DoDeallocPages

Spec == Init /\ [][Next]_vars

\* the same allocator, observed for the memory it hands out
SpecGrants == InitGrants /\ [][Next]_vars

\* ------------------------------------------------------------------------
\* AxeosHasher / AxeosHashBuilder (axstd::collections)
\* ------------------------------------------------------------------------

\* AxeosHasher::new, given the value axhal::misc::random() returned
AxeosHasher_new(random_seed) ==
    [h |-> [built |-> TRUE,
            state |-> (random_seed + SeedOffset) % HashModulus,
            fed |-> <<>>],
     ovf |-> random_seed + SeedOffset >= HashModulus]

\* one iteration of the loop of Hasher::write
write_byte(acc, byte) ==
    [state |-> (acc.state * HashMultiplier + byte) % HashModulus,
     ovf |-> acc.ovf \/ acc.state * HashMultiplier + byte >= HashModulus]

\* Hasher::write: the loop over the slice
RECURSIVE write_loop(_, _)
write_loop(acc, bytes) ==
    IF bytes = <<>> THEN acc
    ELSE write_loop(write_byte(acc, Head(bytes)), Tail(bytes))

write(h, bytes) ==
    LET r == write_loop([state |-> h.state, ovf |-> FALSE], bytes)
    IN  [h |-> [h EXCEPT !.state = r.state, !.fed = @ \o bytes],
         ovf |-> r.ovf]

\* Hasher::finish
finish(h) == h.state

\* BuildHasher::build_hasher
build_hasher(random_seed) == AxeosHasher_new(random_seed)

HashCall(op, ovf) ==
    Call(op, 0, 0,
         Outcome(new, IF Panics(ovf) THEN "Panic" ELSE "Unit", 0, ovf), new)

AllocatorIdle ==
    UNCHANGED <<start, end, b_pos, p_pos, count, bytes_start,
                overflow_checks, ep, init_args, grants, track>>

DoBuildHasher ==
    /\ ~Panicked
    /\ \E i \in HasherIds, r \in RandomValues :
        LET out == build_hasher(r)
        IN  /\ hashers' = IF Panics(out.ovf) THEN hashers
                          ELSE [hashers EXCEPT ![i] = out.h]
            /\ last' = HashCall("build_hasher", out.ovf)
    /\ AllocatorIdle

DoWrite ==
    /\ ~Panicked
    /\ \E i \in HasherIds, bytes \in ByteSlices :
        /\ hashers[i].built
        /\ Len(hashers[i].fed) + Len(bytes) <= MaxFed
        /\ LET out == write(hashers[i], bytes)
           IN  /\ hashers' = IF Panics(out.ovf) THEN hashers
                             ELSE [hashers EXCEPT ![i] = out.h]
               /\ last' = HashCall("write", out.ovf)
    /\ AllocatorIdle

NextHash ==
    \/ DoBuildHasher
    \/ DoWrite

InitHash == Fresh /\ track = FALSE /\ hashers = NoHashers

\* the hashers built by one AxeosHashBuilder
SpecHash == InitHash /\ [][NextHash]_vars

\* ------------------------------------------------------------------------
\* Properties
\* ------------------------------------------------------------------------

\* x rounded up / down to a multiple of a, over the integers
RoundUp(x, a) == ((x + a - 1) \div a) * a

RoundDown(x, a) == (x \div a) * a

Errors == {"NoMemory", "InvalidParam"}

\* init has been called at least once (state Initialized of the lifecycle)
Initialized == init_args # <<>>

\* C1: after every call on an initialized allocator, failed ones
\* included, start <= bytes_start <= b_pos <= p_pos <= end.
C1_RegionOrdered ==
    Initialized =>
        /\ start <= bytes_start
        /\ bytes_start <= b_pos
        /\ b_pos <= p_pos
        /\ p_pos <= end

\* C2: an alloc or alloc_pages on an initialized allocator that returns an
\* error leaves every field of the allocator as it was before the call.
C2_FailureIsPure ==
    (Initialized /\ last.op \in {"alloc", "alloc_pages"}
                 /\ last.res \in Errors)
        => Self = last.pre

\* C3: from count = 0, after k successful allocs followed by exactly k
\* deallocs (page operations interleaved) b_pos = bytes_start and
\* available_bytes() = p_pos - bytes_start; after fewer than k deallocs
\* b_pos is what it was before the first dealloc.
C3_BulkReclaim ==
    (Initialized /\ ep.ok >= 1 /\ ep.de >= 1) =>
        /\ ep.de = ep.ok =>
            /\ b_pos = bytes_start
            /\ available_bytes(Self).val = p_pos - bytes_start
        /\ ep.de < ep.ok => b_pos = ep.b

\* C4: on an initialized allocator, an alloc whose aligned end (b_pos
\* rounded up to align, plus size) equals p_pos succeeds, and the same
\* request one byte larger fails with NoMemory (stated for a non-zero
\* aligned position, where no InvalidParam is due).
C4_ByteBoundary ==
    (Initialized /\ last.op = "alloc"
                 /\ RoundUp(last.pre.b_pos, last.a2) # 0) =>
        /\ RoundUp(last.pre.b_pos, last.a2) + last.a1 = last.pre.p_pos
            => last.res = "Ok"
        /\ (last.a1 >= 1 /\
            RoundUp(last.pre.b_pos, last.a2) + (last.a1 - 1) = last.pre.p_pos)
            => last.res = "NoMemory"

\* C5: on an initialized allocator, an alloc_pages whose aligned start
\* ((p_pos - n*PAGE_SIZE) rounded down to align) equals b_pos succeeds,
\* and the same request with one more page fails with NoMemory.
C5_PageBoundary ==
    (Initialized /\ last.op = "alloc_pages") =>
        /\ (last.pre.p_pos >= last.a1 * PAGE_SIZE /\
            RoundDown(last.pre.p_pos - last.a1 * PAGE_SIZE, last.a2)
                = last.pre.b_pos)
            => last.res = "Ok"
        /\ (last.a1 >= 1 /\
            last.pre.p_pos >= (last.a1 - 1) * PAGE_SIZE /\
            RoundDown(last.pre.p_pos - (last.a1 - 1) * PAGE_SIZE, last.a2)
                = last.pre.b_pos)
            => last.res = "NoMemory"

\* C6: on an initialized allocator no call panics and no usize arithmetic
\* of a call or of an accounting query leaves the usize range.
C6_NoPanicNoOverflow ==
    Initialized =>
        /\ last.res # "Panic"
        /\ ~last.ovf
        /\ ~total_bytes(Self).ovf /\ ~used_bytes(Self).ovf
        /\ ~available_bytes(Self).ovf /\ ~total_pages(Self).ovf
        /\ ~used_pages(Self).ovf /\ ~available_pages(Self).ovf

\* C7: on an initialized allocator p_pos never increases across
\* alloc_pages, alloc and dealloc calls, and dealloc_pages leaves every
\* field unchanged.
C7_PageCursorMonotone ==
    Initialized =>
        /\ last.op \in {"alloc_pages", "alloc", "dealloc"}
            => p_pos <= last.pre.p_pos
        /\ last.op = "dealloc_pages" => Self = last.pre

\* C8: dealloc with count = 0 changes nothing: count stays 0 and the
\* cursors and bounds keep their values.
C8_DeallocAtZero ==
    (last.op = "dealloc" /\ last.pre.count = 0)
        => (count = 0 /\ Self = last.pre)

C8_Witness ==
    /\ last.op = "dealloc" /\ last.pre.count = 0
    /\ init_args # <<>> /\ p_pos < end

\* C9: add_memory returns NoMemory whatever its arguments and whatever
\* the state, and changes no field.
C9_AddMemoryDenied ==
    last.op = "add_memory" => (last.res = "NoMemory" /\ Self = last.pre)

C9_Witness ==
    /\ last.op = "add_memory" /\ last.a1 = end
    /\ init_args # <<>> /\ count > 0

\* C10: total_bytes() and total_pages() are fixed by the last init:
\* total_bytes() = end - start = the size given to init and
\* total_pages() = total_bytes() / PAGE_SIZE, whatever calls followed.
C10_TotalsFixedByInit ==
    init_args # <<>> =>
        /\ total_bytes(Self).val = init_args[2]
        /\ total_bytes(Self).val = end - start
        /\ total_pages(Self).val = total_bytes(Self).val \div PAGE_SIZE

C10_Witness ==
    /\ init_args # <<>> /\ init_args[2] > 0
    /\ last.op = "alloc_pages" /\ last.res = "Ok" /\ last.a1 > 0
    /\ count > 0

\* C11: init(s, n) on an allocator in any state gives the state of a
\* fresh allocator after init(s, n): start = bytes_start = b_pos = s,
\* end = p_pos = s + n, count = 0.
C11_ReinitDiscards ==
    (last.op = "init" /\ last.res = "Unit") =>
        /\ Self = init(new, last.a1, last.a2).st
        /\ start = last.a1 /\ bytes_start = last.a1 /\ b_pos = last.a1
        /\ end = last.a1 + last.a2 /\ p_pos = last.a1 + last.a2
        /\ count = 0

C11_Witness ==
    /\ last.op = "init" /\ last.res = "Unit"
    /\ last.pre.count > 0
    /\ last.pre.p_pos < last.pre.end
    /\ last.pre.start # last.a1

\* C12: a successful alloc(size, align) on an initialized allocator
\* returns the smallest multiple of align >= the old b_pos, sets b_pos to
\* that address plus size, adds 1 to count and leaves p_pos, start, end
\* and bytes_start unchanged.
C12_AllocEffect ==
    (Initialized /\ last.op = "alloc" /\ last.res = "Ok") =>
        /\ last.ret = RoundUp(last.pre.b_pos, last.a2)
        /\ b_pos = last.ret + last.a1
        /\ count = last.pre.count + 1
        /\ p_pos = last.pre.p_pos /\ start = last.pre.start
        /\ end = last.pre.end /\ bytes_start = last.pre.bytes_start

\* C13: a successful alloc_pages(n, align) on an initialized allocator
\* returns the largest multiple of align <= old p_pos - n*PAGE_SIZE, sets
\* p_pos to it, leaves the other fields unchanged, and the block
\* [addr, addr + n*PAGE_SIZE) lies inside the old gap [b_pos, p_pos).
C13_AllocPagesEffect ==
    (Initialized /\ last.op = "alloc_pages" /\ last.res = "Ok") =>
        /\ last.pre.p_pos >= last.a1 * PAGE_SIZE
        /\ last.ret = RoundDown(last.pre.p_pos - last.a1 * PAGE_SIZE, last.a2)
        /\ p_pos = last.ret
        /\ b_pos = last.pre.b_pos /\ count = last.pre.count
        /\ start = last.pre.start /\ end = last.pre.end
        /\ bytes_start = last.pre.bytes_start
        /\ last.pre.b_pos <= last.ret
        /\ last.ret + last.a1 * PAGE_SIZE <= last.pre.p_pos

\* C14: in every state of an initialized allocator used_bytes() =
\* (b_pos - bytes_start) + (end - p_pos) and available_bytes() =
\* p_pos - b_pos (compared as usize values, i.e. modulo 2^WordBits);
\* after a dealloc that brings count to 0 with no pages allocated
\* used_bytes() = 0.
C14_UsedAndAvailable ==
    Initialized =>
        /\ used_bytes(Self).val
            = ((b_pos - bytes_start) + (end - p_pos)) % Modulus
        /\ available_bytes(Self).val = (p_pos - b_pos) % Modulus
        /\ (last.op = "dealloc" /\ count = 0 /\ p_pos = end)
            => used_bytes(Self).val = 0

\* C15: an alloc whose aligned position is 0 and whose request fits
\* returns InvalidParam, and is not counted: count and b_pos keep their
\* values.
C15_NullNotCounted ==
    (last.op = "alloc" /\ RoundUp(last.pre.b_pos, last.a2) = 0
                       /\ last.a1 <= last.pre.p_pos) =>
        /\ last.res = "InvalidParam"
        /\ count = last.pre.count
        /\ b_pos = last.pre.b_pos

\* C17: in every state count = 0 implies b_pos = bytes_start.
C17_ZeroCountMeansEmpty ==
    count = 0 => b_pos = bytes_start

C17_Witness ==
    /\ count = 0 /\ last.op = "dealloc"
    /\ last.pre.count = 1 /\ last.pre.b_pos > last.pre.bytes_start
    /\ b_pos = bytes_start

\* C18: in every state of an initialized allocator
\* used_bytes() + available_bytes() = total_bytes() (the sum taken as a
\* usize value, i.e. modulo 2^WordBits).
C18_AccountingPartition ==
    Initialized =>
        (used_bytes(Self).val + available_bytes(Self).val) % Modulus
            = total_bytes(Self).val

\* C16: under disciplined use (every dealloc matches an earlier successful
\* alloc not yet deallocated) the blocks returned by alloc_pages since the
\* last init are pairwise disjoint and disjoint from every live byte
\* allocation, and live byte allocations are pairwise disjoint.
C16_GrantsDisjoint ==
    (Initialized /\ grants.disciplined) => ~grants.clash

\* C19: any two hashers built by AxeosHashBuilder::build_hasher that were
\* fed the same byte sequence return the same finish() value.
C19_HashDeterministic ==
    \A i, j \in HasherIds :
        (hashers[i].built /\ hashers[j].built
            /\ hashers[i].fed = hashers[j].fed)
        => finish(hashers[i]) = finish(hashers[j])

====
